---- MODULE Spec2Model ----
(***************************************************************************)
(* Authentication / session flow and chat-turn flow of the FastAPI demos:  *)
(*   class05 : class-05 fastapi-agent-service/main.py     (/login, /chat)  *)
(*   class07 : class-07 ai-agent-application/backend      (/login, /plan)  *)
(*   class06g: class-06 ai-agent-with-guardrails/main.py  (/chat, no auth) *)
(* One behaviour is one server process of one of the services.  A client   *)
(* sends a request (Send...), the handler runs as one atomic action, and   *)
(* the client takes the response (Deliver).  The outcomes of the external  *)
(* collaborators (uuid4, trace monitor, agent, guardrail checker) are      *)
(* nondeterministic inputs of the handler's action.                        *)
(* Further specifications over the same variables: SpecFallback (keyword   *)
(* fallback replies), SpecTurns (repeated turns of one process), SpecUI    *)
(* (the Streamlit front ends with their API), SpecThreads (login and Auth  *)
(* Guard on concurrent worker threads) and SpecIcs (the calendar file of   *)
(* an itinerary).                                                          *)
(***************************************************************************)
EXTENDS Integers, Sequences, FiniteSets, TLC

(* ------------------------------ bounds --------------------------------- *)
\* number of distinct values uuid4() can return in the model
MaxUuid == 2
\* longest request message, in atoms (a whitespace character or a word)
MaxMsgLen == 2
\* longest message, in words, of the fallback-reply specification
MaxKeywords == 2
\* longest itinerary text, in atoms (a newline, a space or a word)
MaxPlanLen == 6

(* ------------------------------ data ----------------------------------- *)
\* Python's None; no input set below contains it as a string
None == "<None>"

\* the services: class-05 fastapi-agent-service, class-07 backend, class-06
\* agent with guardrails, class-06 agent without guardrails, and the
\* resources/fastapi authentication demo
Variants == {"class05", "class07", "class06g", "class06n", "authdemo"}
AuthVariants == {"class05", "class07"}

\* values uuid4() may return, already formatted by str()
UUIDs == {"u" \o ToString(i) : i \in 1..MaxUuid}

\* os.getenv(...) results for AGENT_API_USERNAME / AGENT_API_PASSWORD
EnvUsernames == {None, "", "student"}
EnvPasswords == {None, "", "travel-demo"}

\* credential strings a client may submit (LoginRequest fields are str)
SubmittedUsernames == {"", "student", "Student"}
SubmittedPasswords == {"", "travel-demo", "wrong"}

\* the authentication demo's one user, and what its clients may submit
FAKE_USER_DB == [u \in {"bod_doe"} |-> [password |-> "aitut", full_name |-> "Bod Doe"]]
DemoUsernames == {"bod_doe", "alice"}
DemoPasswords == {"aitut", "wonderland"}

\* header names a client of the demo may use for the token: the one its
\* docstring gives and the name of the handler's parameter
DemoHeaderNames == {"X-Auth-Token", "x_auth_token"}
\* what may follow "token-" in a header value, and the header values
DemoTokenBodies == DemoUsernames \cup {""}
DemoHeaders == {None, "", "bod_doe"} \cup {"token-" \o b : b \in DemoTokenBodies}

\* message atoms: whitespace characters and words
Whitespace == {" ", "\t"}
Words == {"hi", "FastAPI"}
Atoms == Whitespace \cup Words
Messages == UNION {[1..n -> Atoms] : n \in 0..MaxMsgLen}

SessionIds == {None, "s1"}

\* messages made of the words the fallback reply looks for, and one other
KeywordWords == {"Streamlit", "FastAPI", "langfuse", "monitor", "deploy", "hi"}
KeywordMessages == UNION {[1..n -> KeywordWords] : n \in 1..MaxKeywords}

OPENAI_MODEL == "gpt-4o-mini"
AgentText == "agent answer"

\* None where a text (a sequence of atoms) is expected
NoneText == <<None>>

\* what one agent invocation may do: raise, return a result without messages,
\* return a last message whose content is "", or return text
AgentOutcomes == {"raises", "no_messages", "empty", "text"}

\* langfuse auth_check(): True, False, or an exception
MonitorOutcomes == {"ok", "denied", "raises"}

(* --------------------------- pure helpers ------------------------------ *)
\* Python truthiness of an Optional[str]
Truthy(v) == v # None /\ v # ""

\* the same for a text
TruthyText(t) == t # NoneText /\ t # <<>>

\* str.strip(): drop leading and trailing whitespace
RECURSIVE lstrip(_)
lstrip(s) == IF s # <<>> /\ Head(s) \in Whitespace THEN lstrip(Tail(s)) ELSE s

RECURSIVE rstrip(_)
rstrip(s) ==
    IF s # <<>> /\ s[Len(s)] \in Whitespace THEN rstrip(SubSeq(s, 1, Len(s) - 1)) ELSE s

strip(s) == rstrip(lstrip(s))

\* str.lower() of one atom
LowerAtom(a) ==
    IF a = "FastAPI" THEN "fastapi" ELSE IF a = "Streamlit" THEN "streamlit" ELSE a

lower(s) == [i \in 1..Len(s) |-> LowerAtom(s[i])]

\* `kw in text`, at the granularity of atoms
Contains(text, kw) == \E i \in 1..Len(text) : text[i] = kw

(* ----------------------------- settings -------------------------------- *)
\* class-05 reads the variables without a default; class-07 defaults them
ConfiguredUsername(v, env) ==
    IF v = "class07" /\ env = None THEN "student" ELSE env

ConfiguredPassword(v, env) ==
    IF v = "class07" /\ env = None THEN "travel-demo" ELSE env

(* ---------------------------- token store ------------------------------ *)
\* mutation: the random component is left out of the token
create_token_no_uuid(username, u) == "token-" \o "-" \o username

create_token(username, u) == "token-" \o u \o "-" \o username

\* mutation: the assignment replaces the table by one holding the new entry
save_token_replaces_table(store, token, username) == [t \in {token} |-> username]

save_token(store, token, username) ==
    [t \in DOMAIN store \cup {token} |-> IF t = token THEN username ELSE store[t]]

\* active_tokens.get(x_auth_token)
store_get(store, token) == IF token \in DOMAIN store THEN store[token] ELSE None

\* mutation: the guard does not consult the store at all
verify_token_never_rejects(store, token) == FALSE

\* verify_token: TRUE iff the code raises 401 (`if not username`)
verify_token_rejects(store, token) == ~Truthy(store_get(store, token))

\* header values a client may present to a service whose configured username
\* is cu: no header (None), the empty string, a well-formed token that is
\* never issued, and every token the service can issue
Headers(cu) ==
    {None, "", "token-u0-student"}
        \cup {create_token(IF cu = None THEN "student" ELSE cu, u) : u \in UUIDs}

(* ------------------------------ login ---------------------------------- *)
\* mutation: the comparison ignores case
login_status_case_insensitive(v, cu, cp, username, password) ==
    IF v = "class05" /\ (~Truthy(cu) \/ ~Truthy(cp)) THEN 500
    ELSE IF (username # cu /\ ~(username = "Student" /\ cu = "student")) \/ password # cp
    THEN 401
    ELSE 200

\* mutation: only the password is compared
login_status_password_only(v, cu, cp, username, password) ==
    IF v = "class05" /\ (~Truthy(cu) \/ ~Truthy(cp)) THEN 500
    ELSE IF password # cp THEN 401
    ELSE 200

\* status of POST /login; cu, cp are the configured values
login_status(v, cu, cp, username, password) ==
    IF v = "class05" /\ (~Truthy(cu) \/ ~Truthy(cp)) THEN 500
    ELSE IF username # cu \/ password # cp THEN 401
    ELSE 200

\* the authentication demo's create_token: no random component
demo_create_token(username) == "token-" \o username

\* status of the authentication demo's POST /login
demo_login_status(db, username, password) ==
    IF username \notin DOMAIN db \/ db[username].password # password THEN 401
    ELSE 200

\* HTTP header names compare case-insensitively
LowerName(name) == IF name = "X-Auth-Token" THEN "x-auth-token" ELSE name

\* Header(..., convert_underscores=False) on the parameter x_auth_token: the
\* value of the request header named x_auth_token, None when there is none
header_lookup(name, value) == IF LowerName(name) = "x_auth_token" THEN value ELSE None

\* x_auth_token.startswith("token-")
startswith_token(h) == \E b \in DemoTokenBodies : h = "token-" \o b

\* x_auth_token.removeprefix("token-"), for a value that starts with it
removeprefix_token(h) == CHOOSE b \in DemoTokenBodies : h = "token-" \o b

(* ------------------------------ state ---------------------------------- *)
VARIABLES
    variant,          \* which service this process runs
    env_username,     \* os.getenv("AGENT_API_USERNAME")
    env_password,     \* os.getenv("AGENT_API_PASSWORD")
    agent_configured, \* OPENAI_API_KEY set and the agent object built
    active_tokens,    \* app.state.active_tokens: token -> username
    session_history,  \* class-06 app.state.session_history: session id -> conversation
    issued,           \* history: token -> [username, uuid] of every successful login
    just_issued,      \* history: the token the latest handled request issued, or None
    pending,          \* the request in flight, op = "none" when there is none
    last,             \* the request just handled and its response, until the
                      \* client takes it (op = "none" when there is none)
    earlier,          \* history: one chat turn the client took earlier and the
                      \* session_history of that moment (set by Keep only)
    ui,               \* st.session_state of the one browser session of the
                      \* Streamlit front end, and what its latest run displayed
    threads           \* the worker threads of the thread pool that runs the
                      \* handlers: for each, its request and its position in it

vars ==
    <<variant, env_username, env_password, agent_configured, active_tokens,
      session_history, issued, just_issued, pending, last, earlier,
      ui, threads>>

config == <<variant, env_username, env_password, agent_configured>>

API_USERNAME == ConfiguredUsername(variant, env_username)
API_PASSWORD == ConfiguredPassword(variant, env_password)

EmptyStore == [t \in {} |-> None]

\* a request/response record with every field at its default
Blank ==
    [op |-> "none", status |-> 0,
     username |-> None, password |-> None, uuid |-> None, token |-> None,
     header |-> None, header_name |-> None, full_name |-> None, message |-> <<>>, messages |-> <<>>, session_in |-> None,
     principal |-> None, reply |-> <<>>, source |-> None, monitored |-> FALSE,
     session_id |-> None, note |-> None, trace_session |-> None,
     agent |-> <<>>, calls |-> <<>>, rejected |-> None, guarded |-> NoneText,
     path |-> <<>>]

\* the front ends' init_state: st.session_state before the first login; u is
\* the session id uuid4 returned (None while no front end is looked at)
init_state(u) ==
    [authenticated |-> FALSE, username |-> "", api_token |-> None, session_id |-> u,
     itinerary |-> NoneText, guardrails_note |-> None, latest_trip |-> NoneText,
     reply |-> <<>>, source |-> None, text |-> <<>>,
     action |-> "none", shown |-> "login_form", start_date |-> None, ics |-> <<>>]

\* the worker threads looked at: two that run login, two that run the Auth
\* Guard of a chat/plan request
LoginWorkers == {"login-1", "login-2"}
GuardWorkers == {"guard-1", "guard-2"}
Workers == LoginWorkers \cup GuardWorkers

\* a worker with no request
IdleThread ==
    [pc |-> "idle", username |-> None, password |-> None, token |-> None,
     uuid |-> None, header |-> None, principal |-> None, status |-> 0]

\* no turn kept
NoTurn == [turn |-> Blank, stored |-> EmptyStore]

Init ==
    /\ variant \in Variants
    \* the class-06 service has no login and reads neither variable
    /\ env_username \in (IF variant \in AuthVariants THEN EnvUsernames ELSE {None})
    /\ env_password \in (IF variant \in AuthVariants THEN EnvPasswords ELSE {None})
    /\ agent_configured \in (IF variant = "authdemo" THEN {FALSE} ELSE BOOLEAN)
    /\ active_tokens = EmptyStore
    /\ session_history = EmptyStore
    /\ issued = EmptyStore
    /\ just_issued = None
    /\ pending = Blank
    /\ last = Blank
    /\ earlier = NoTurn
    /\ ui = init_state(None)
    /\ threads = [w \in Workers |-> IdleThread]

Idle == pending.op = "none" /\ last.op = "none"

\* a client sends a request
Send(request) ==
    /\ Idle
    /\ pending' = request
    /\ UNCHANGED <<config, earlier, threads, ui, active_tokens, session_history, issued, just_issued, last>>

\* the client takes the response
Deliver ==
    /\ last.op # "none"
    /\ last' = Blank
    /\ UNCHANGED <<config, earlier, threads, ui, active_tokens, session_history, issued, just_issued, pending>>

\* GET /health
Health ==
    /\ pending.op = "health"
    /\ last' = [pending EXCEPT !.status = 200]
    /\ pending' = Blank
    /\ just_issued' = None
    /\ UNCHANGED <<config, earlier, threads, ui, active_tokens, session_history, issued>>

\* POST /login with body {username, password}; u is what uuid4() returns
Login(u) ==
    /\ pending.op = "login"
    /\ variant \in AuthVariants
    /\ LET username == pending.username
           st == login_status(variant, API_USERNAME, API_PASSWORD, username,
                              pending.password)
           token == create_token(username, u)
           req == [pending EXCEPT !.status = st]
       IN  IF st = 200
           THEN /\ active_tokens' = save_token(active_tokens, token, username)
                /\ last' = [req EXCEPT !.uuid = u, !.token = token]
                /\ issued' = [t \in DOMAIN issued \cup {token} |->
                                 IF t = token THEN [username |-> username, uuid |-> u]
                                 ELSE issued[t]]
                /\ just_issued' = token
           ELSE /\ active_tokens' = active_tokens
                /\ last' = req
                /\ issued' = issued
                /\ just_issued' = None
    /\ pending' = Blank
    /\ UNCHANGED <<config, earlier, threads, ui, session_history>>

\* POST /login of the authentication demo: the token is returned, not stored
DemoLogin ==
    /\ pending.op = "login"
    /\ variant = "authdemo"
    /\ LET username == pending.username
           st == demo_login_status(FAKE_USER_DB, username, pending.password)
           token == demo_create_token(username)
           req == [pending EXCEPT !.status = st]
       IN  IF st = 200
           THEN /\ last' = [req EXCEPT !.token = token]
                /\ issued' = [t \in DOMAIN issued \cup {token} |->
                                 IF t = token THEN [username |-> username, uuid |-> None]
                                 ELSE issued[t]]
                /\ just_issued' = token
           ELSE /\ last' = req
                /\ issued' = issued
                /\ just_issued' = None
    /\ pending' = Blank
    /\ UNCHANGED <<config, earlier, threads, ui, active_tokens, session_history>>

\* GET /profile of the authentication demo: the response to a request that
\* carries value under the header name
read_profile(db, name, value) ==
    LET req == [Blank EXCEPT !.op = "profile", !.header_name = name, !.header = value]
        x_auth_token == header_lookup(name, value)
        username == removeprefix_token(x_auth_token)
    IN  IF x_auth_token = None THEN [req EXCEPT !.status = 422]
        ELSE IF ~startswith_token(x_auth_token) THEN [req EXCEPT !.status = 401]
        ELSE IF username \notin DOMAIN db THEN [req EXCEPT !.status = 401]
        ELSE [req EXCEPT !.status = 200, !.principal = username,
                         !.full_name = db[username].full_name]

\* GET /profile of the authentication demo
ReadProfile ==
    /\ pending.op = "profile"
    /\ variant = "authdemo"
    /\ last' = read_profile(FAKE_USER_DB, pending.header_name, pending.header)
    /\ pending' = Blank
    /\ just_issued' = None
    /\ UNCHANGED <<config, earlier, threads, ui, active_tokens, session_history, issued>>

(* ------------------------- class-05 POST /chat ------------------------- *)
\* run_agent: the text of the agent's last message, or None
run_agent05(configured, outcome) ==
    IF ~configured THEN NoneText
    ELSE IF outcome \in {"raises", "no_messages"} THEN NoneText
    ELSE IF outcome = "empty" THEN <<>>
    ELSE <<AgentText>>

\* mutation: the fastapi test comes before the streamlit test
build_offline_reply_fastapi_first(message) ==
    LET text == lower(message)
    IN  IF Contains(text, "fastapi")
        THEN <<"FastAPI ships with automatic docs at /docs. Try them once the server is running!">>
        ELSE IF Contains(text, "streamlit")
        THEN <<"Streamlit reruns your script after every click. Keep anything you need in st.session_state.">>
        ELSE IF Contains(text, "langfuse") \/ Contains(text, "monitor")
        THEN <<"Langfuse links inputs and outputs. Set the keys to see traces pop up in the dashboard.">>
        ELSE IF Contains(text, "deploy")
        THEN <<"Deploy the API first, then point your Streamlit app to the live URL to share it.">>
        ELSE <<"I am in offline mode. Ask about Streamlit, FastAPI, or Langfuse to see directed tips.">>

build_offline_reply(message) ==
    LET text == lower(message)
    IN  IF Contains(text, "streamlit")
        THEN <<"Streamlit reruns your script after every click. Keep anything you need in st.session_state.">>
        ELSE IF Contains(text, "fastapi")
        THEN <<"FastAPI ships with automatic docs at /docs. Try them once the server is running!">>
        ELSE IF Contains(text, "langfuse") \/ Contains(text, "monitor")
        THEN <<"Langfuse links inputs and outputs. Set the keys to see traces pop up in the dashboard.">>
        ELSE IF Contains(text, "deploy")
        THEN <<"Deploy the API first, then point your Streamlit app to the live URL to share it.">>
        ELSE <<"I am in offline mode. Ask about Streamlit, FastAPI, or Langfuse to see directed tips.">>

\* mutation: the fallback text is tagged like the agent's own
invoke_agent_always_langgraph(message, agent_reply) ==
    IF TruthyText(agent_reply)
    THEN <<agent_reply, "langgraph:" \o OPENAI_MODEL>>
    ELSE <<build_offline_reply(message), "langgraph:" \o OPENAI_MODEL>>

\* invoke_agent: <<reply, source>>
invoke_agent(message, agent_reply) ==
    IF TruthyText(agent_reply)
    THEN <<agent_reply, "langgraph:" \o OPENAI_MODEL>>
    ELSE <<build_offline_reply(message), "rule-based">>

\* mutation: the message is tested before it is stripped
message_is_empty_unstripped(message) == message = <<>>

\* chat, lines 227-228: `message = payload.message.strip(); if not message`
message_is_empty(message) == strip(message) = <<>>

\* ChatResponse(...) raises a validation error unless session_id is a str
ChatResponse_valid(session_id) == session_id # None

\* mutation: the message is validated before the token is looked up
chat05_validates_first(store, configured, header, payload_message, session_in, mon, outcome) ==
    LET req == [Blank EXCEPT !.op = "chat", !.header = header,
                             !.message = payload_message, !.session_in = session_in,
                             !.path = <<"received">>]
        message == strip(payload_message)
        agent_reply == run_agent05(configured, outcome)
        answer == invoke_agent(message, agent_reply)
        turn == [req EXCEPT !.principal = store_get(store, header),
                            !.calls = <<"auth_check">>,
                            !.path = <<"received", "validated">>]
        ran == [turn EXCEPT
                   !.monitored = (mon = "ok"),
                   !.trace_session = "chat_tutai_123",
                   !.agent = IF configured THEN <<outcome>> ELSE <<>>,
                   !.calls = <<"auth_check", "trace">>
                                \o (IF configured THEN <<"agent">> ELSE <<>>),
                   !.path = <<"received", "validated", "agent_attempted",
                              IF TruthyText(agent_reply)
                              THEN "agent_succeeded" ELSE "agent_failed">>]
    IN  IF header = None
        THEN [req EXCEPT !.status = 422, !.path = <<"received", "rejected">>]
        ELSE IF message_is_empty(payload_message)
        THEN [req EXCEPT !.status = 400, !.path = <<"received", "rejected">>]
        ELSE IF verify_token_rejects(store, header)
        THEN [req EXCEPT !.status = 401, !.path = <<"received", "rejected">>]
        ELSE IF mon = "raises"
        THEN [turn EXCEPT !.status = 500, !.path = Append(turn.path, "error")]
        ELSE IF ~ChatResponse_valid(session_in)
        THEN [ran EXCEPT !.status = 500, !.path = Append(ran.path, "error")]
        ELSE [ran EXCEPT !.status = 200, !.reply = answer[1], !.source = answer[2],
                         !.session_id = session_in,
                         !.path = Append(ran.path, "responded")]

\* the whole /chat request: header check by FastAPI, verify_token, chat
chat05(store, configured, header, payload_message, session_in, mon, outcome) ==
    LET req == [Blank EXCEPT !.op = "chat", !.header = header,
                             !.message = payload_message, !.session_in = session_in,
                             !.path = <<"received">>]
        message == strip(payload_message)
        agent_reply == run_agent05(configured, outcome)
        answer == invoke_agent(message, agent_reply)
        turn == [req EXCEPT !.principal = store_get(store, header),
                            !.calls = <<"auth_check">>,
                            !.path = <<"received", "validated">>]
        ran == [turn EXCEPT
                   !.monitored = (mon = "ok"),
                   !.trace_session = "chat_tutai_123",
                   !.agent = IF configured THEN <<outcome>> ELSE <<>>,
                   !.calls = <<"auth_check", "trace">>
                                \o (IF configured THEN <<"agent">> ELSE <<>>),
                   !.path = <<"received", "validated", "agent_attempted",
                              IF TruthyText(agent_reply)
                              THEN "agent_succeeded" ELSE "agent_failed">>]
    IN  IF header = None
        THEN [req EXCEPT !.status = 422, !.path = <<"received", "rejected">>]
        ELSE IF verify_token_rejects(store, header)
        THEN [req EXCEPT !.status = 401, !.path = <<"received", "rejected">>]
        ELSE IF message_is_empty(payload_message)
        THEN [req EXCEPT !.status = 400, !.principal = store_get(store, header),
                         !.path = <<"received", "rejected">>]
        ELSE IF mon = "raises"
        THEN [turn EXCEPT !.status = 500, !.path = Append(turn.path, "error")]
        ELSE IF ~ChatResponse_valid(session_in)
        THEN [ran EXCEPT !.status = 500, !.path = Append(ran.path, "error")]
        ELSE [ran EXCEPT !.status = 200, !.reply = answer[1], !.source = answer[2],
                         !.session_id = session_in,
                         !.path = Append(ran.path, "responded")]

\* the outcomes a collaborator can have: one placeholder when it is not called
OutcomesIf(called, outcomes, unused) == IF called THEN outcomes ELSE {unused}

Chat05 ==
    /\ pending.op = "chat"
    /\ variant = "class05"
    /\ LET validated == /\ pending.header # None
                        /\ ~verify_token_rejects(active_tokens, pending.header)
                        /\ ~message_is_empty(pending.message)
       IN  \E mon \in OutcomesIf(validated, MonitorOutcomes, "ok") :
           \E outcome \in OutcomesIf(validated /\ mon # "raises" /\ agent_configured,
                                     AgentOutcomes, "raises") :
             last' = chat05(active_tokens, agent_configured, pending.header,
                            pending.message, pending.session_in, mon, outcome)
    /\ pending' = Blank
    /\ just_issued' = None
    /\ UNCHANGED <<config, earlier, threads, ui, active_tokens, session_history, issued>>

(* ------------------------- class-07 POST /plan ------------------------- *)
\* PlanRequest.destination: any str, blank ones included
Destinations == {<<>>, <<" ">>, <<"hi">>}

\* travel_mcp_tools: the tools are loaded and the sessions closed cleanly,
\* loading raises, or the tools are loaded and closing the sessions raises
McpOutcomes == {"tools", "unavailable", "close_fails"}

\* a guardrail validation: passes, or raises (the helpers turn it into "blocked")
GuardOutcomes == {"pass", "reject"}

build_trip_prompt(destination) ==
    <<"IMMEDIATELY create an extremely detailed and comprehensive travel itinerary:",
      "- Destination:">> \o destination \o <<"- Duration:", "Use MCP tool outputs directly">>

\* mutation: the verdict of the prompt guard is ignored
check_user_prompt_always_ok(prompt, guard) == <<"ok", None>>

\* check_user_prompt: <<status, message>>; the guard runs only on a non-blank prompt
check_user_prompt(prompt, guard) ==
    IF strip(prompt) = <<>>
    THEN <<"blocked", "Please share a destination or travel idea first.">>
    ELSE IF guard = "pass" THEN <<"ok", None>>
    ELSE <<"blocked", "Prompt rejected by guardrails">>

\* mutation: the verdict of the answer guard is ignored
check_agent_answer_always_ok(guard) == <<"ok", None>>

check_agent_answer(guard) ==
    IF guard = "pass" THEN <<"ok", None>> ELSE <<"blocked", "Response withheld by guardrails">>

\* _invoke_with_tools followed by _extract_text
invoke_with_tools(outcome) ==
    IF outcome \in {"raises", "no_messages"} THEN NoneText
    ELSE IF outcome = "empty" THEN <<>>
    ELSE <<AgentText>>

\* mutation: the response of the MCP-backed invocation is not returned
plan_invocations_no_return(configured, mcp, inv1, inv2) ==
    IF ~configured THEN <<>>
    ELSE IF mcp \in {"tools", "close_fails"} THEN <<inv1, inv2>>
    ELSE <<inv2>>

\* AgentRuntime.plan: the agent invocations it makes, in order
plan_invocations(configured, mcp, inv1, inv2) ==
    IF ~configured THEN <<>>
    ELSE IF mcp = "tools"
    THEN IF TruthyText(invoke_with_tools(inv1)) THEN <<inv1>> ELSE <<inv1, inv2>>
    \* the exception of the context manager's exit replaces the return
    ELSE IF mcp = "close_fails" THEN <<inv1, inv2>>
    ELSE <<inv2>>

\* AgentRuntime.plan: its collaborator calls, in order
plan_calls(configured, mcp, invs) ==
    IF ~configured THEN <<>>
    ELSE IF mcp = "unavailable" THEN <<"mcp_failed", "agent">>
    ELSE <<"mcp", "agent">>
            \o (IF mcp = "close_fails" THEN <<"mcp_close_failed">> ELSE <<>>)
            \o (IF Len(invs) = 2 THEN <<"agent">> ELSE <<>>)

\* AgentRuntime.plan: its return value is that of the last invocation
agent_plan(configured, mcp, inv1, inv2) ==
    LET invs == plan_invocations(configured, mcp, inv1, inv2)
    IN  IF invs = <<>> THEN NoneText ELSE invoke_with_tools(invs[Len(invs)])

build_fallback_reply(destination) ==
    <<"Here's a quick starter itinerary for">> \o destination
        \o <<"Upgrade your API keys to unlock richer MCP-powered suggestions.">>

\* `payload.session_id or str(uuid.uuid4())`
session_or_new(session_in, u) == IF Truthy(session_in) THEN session_in ELSE u

\* the whole /plan request: header check by FastAPI, verify_token, plan_trip
plan07(store, configured, header, destination, session_in, u, pguard, mon, mcp, inv1, inv2, aguard) ==
    LET req == [Blank EXCEPT !.op = "plan", !.header = header,
                             !.message = destination, !.session_in = session_in,
                             !.path = <<"received">>]
        session_id == session_or_new(session_in, u)
        user_prompt == build_trip_prompt(destination)
        checked == check_user_prompt(user_prompt, pguard)
        read == [req EXCEPT !.principal = store_get(store, header),
                            !.uuid = IF Truthy(session_in) THEN None ELSE u,
                            !.calls = IF strip(user_prompt) = <<>>
                                      THEN <<>> ELSE <<"prompt_guard">>,
                            \* guard.validate raised on the prompt
                            !.rejected = IF strip(user_prompt) # <<>> /\ pguard = "reject"
                                         THEN "prompt" ELSE None]
        turn == [read EXCEPT !.calls = Append(read.calls, "auth_check"),
                             !.path = <<"received", "validated">>]
        monitored == (mon = "ok")
        invs == plan_invocations(configured, mcp, inv1, inv2)
        itinerary == agent_plan(configured, mcp, inv1, inv2)
        ran == [turn EXCEPT
                   !.monitored = monitored,
                   !.trace_session = IF monitored THEN session_id ELSE None,
                   !.agent = invs,
                   !.calls = turn.calls
                               \o (IF monitored THEN <<"trace">> ELSE <<>>)
                               \o plan_calls(configured, mcp, invs),
                   !.session_id = session_id,
                   !.status = 200,
                   !.path = <<"received", "validated", "agent_attempted",
                              IF TruthyText(itinerary)
                              THEN "agent_succeeded" ELSE "agent_failed">>]
        answer == check_agent_answer(aguard)
        \* the answer guard was called, on the agent's text
        judged == [ran EXCEPT !.calls = Append(ran.calls, "answer_guard"),
                              !.rejected = IF aguard = "reject" THEN "answer"
                                           ELSE ran.rejected,
                              !.path = ran.path \o <<"guardrail_checked", "responded">>]
    IN  IF header = None
        THEN [req EXCEPT !.status = 422, !.path = <<"received", "rejected">>]
        ELSE IF verify_token_rejects(store, header)
        THEN [req EXCEPT !.status = 401, !.path = <<"received", "rejected">>]
        ELSE IF checked[1] # "ok"
        THEN [read EXCEPT !.status = 400, !.note = checked[2],
                          !.path = <<"received", "rejected">>]
        ELSE IF mon = "raises"
        THEN [turn EXCEPT !.status = 500, !.path = Append(turn.path, "error")]
        ELSE IF ~TruthyText(itinerary)
        THEN [ran EXCEPT !.reply = build_fallback_reply(destination),
                         !.source = "fallback", !.note = checked[2],
                         !.path = Append(ran.path, "responded")]
        ELSE IF answer[1] # "ok"
        THEN [judged EXCEPT !.reply = build_fallback_reply(destination),
                            !.source = "fallback", !.note = answer[2]]
        ELSE [judged EXCEPT !.reply = itinerary,
                            !.source = "langgraph:" \o OPENAI_MODEL,
                            !.note = checked[2]]

Plan07 ==
    /\ pending.op = "plan"
    /\ variant = "class07"
    /\ LET header == pending.header
           destination == pending.message
           session_in == pending.session_in
           authed == header # None /\ ~verify_token_rejects(active_tokens, header)
           ask == authed /\ strip(build_trip_prompt(destination)) # <<>>
       IN  \E u \in OutcomesIf(authed /\ ~Truthy(session_in), UUIDs, "u1"),
              pguard \in OutcomesIf(ask, GuardOutcomes, "pass") :
           \E mon \in OutcomesIf(ask /\ pguard = "pass", MonitorOutcomes, "ok") :
           LET run == ask /\ pguard = "pass" /\ mon # "raises" /\ agent_configured
           IN  \E mcp \in OutcomesIf(run, McpOutcomes, "tools") :
               \E inv1 \in OutcomesIf(run /\ mcp # "unavailable", AgentOutcomes, "raises") :
               \E inv2 \in OutcomesIf(run /\ (mcp # "tools" \/ inv1 # "text"),
                                      AgentOutcomes, "raises") :
               \E aguard \in OutcomesIf(run /\ "text" \in {inv1, inv2},
                                        GuardOutcomes, "pass") :
                 last' = plan07(active_tokens, agent_configured, header,
                                destination, session_in, u, pguard, mon, mcp,
                                inv1, inv2, aguard)
    /\ pending' = Blank
    /\ just_issued' = None
    /\ UNCHANGED <<config, earlier, threads, ui, active_tokens, session_history, issued>>

(* ------------------ class-06 POST /chat (with guardrails) -------------- *)
ChatMessage(role, content) == [role |-> role, content |-> content]

\* ChatRequest.messages values a client may send
Histories ==
    {<<>>,
     <<ChatMessage("user", <<"hi">>)>>,
     <<ChatMessage("user", <<" ">>)>>,
     <<ChatMessage("assistant", <<"hi">>)>>,
     <<ChatMessage("user", <<"hi">>), ChatMessage("assistant", <<"FastAPI">>)>>}

\* ChatRequest.message values a client may send (Optional[str])
OptMessages == {NoneText, <<>>, <<" ">>, <<"hi">>, <<"hi", " ">>}

\* mutation: an empty history is replaced by the conversation stored under s1
conversation_of_resumed(messages, message) ==
    LET resumed == IF messages = <<>> /\ "s1" \in DOMAIN session_history
                   THEN session_history["s1"] ELSE messages
    IN  IF TruthyText(message)
        THEN LET message_text == strip(message)
             IN  IF message_text # <<>>
                      /\ (resumed = <<>> \/ resumed[Len(resumed)].content # message_text)
                 THEN Append(resumed, ChatMessage("user", message_text))
                 ELSE resumed
        ELSE resumed

\* chat, lines 353-357: the history plus the legacy `message` field
conversation_of(messages, message) ==
    IF TruthyText(message)
    THEN LET message_text == strip(message)
         IN  IF message_text # <<>>
                  /\ (messages = <<>> \/ messages[Len(messages)].content # message_text)
             THEN Append(messages, ChatMessage("user", message_text))
             ELSE messages
    ELSE messages

\* _last_user_message: the content found, or None
RECURSIVE last_user_message(_)
last_user_message(msgs) ==
    IF msgs = <<>> THEN NoneText
    ELSE LET m == msgs[Len(msgs)]
         IN  IF m.role \in {"user", "human"} /\ strip(m.content) # <<>>
             THEN m.content
             ELSE last_user_message(SubSeq(msgs, 1, Len(msgs) - 1))

\* the texts run_agent substitutes when a guardrail check fails
PromptApology == <<"I am sorry but I cannot engage in this type of behavior.">>
ReplyApology == <<"I am sorry but I am experiencing some difficulties.">>
RelevanceApology == <<"Can you provide more details on the product you aim to buy?">>

\* run_agent: what it returns, as [kind, reply, guardrail, calls, rejected];
\* kind "none" is a bare None, kind "pair" a (reply, guardrail_response) tuple;
\* rejected names the guardrail check whose guard.validate raised, if one did;
\* user_input is the text given to the first check and to the relevance check
run_agent06g(configured, conversation, g1, outcome, g2, g3) ==
    LET ret(kind, reply, guardrail, calls) ==
            [kind |-> kind, reply |-> reply, guardrail |-> guardrail, calls |-> calls,
             user_input |-> IF calls = <<>> THEN NoneText
                            ELSE conversation[Len(conversation)].content,
             rejected |->
                 IF calls = <<>> THEN None
                 ELSE IF "prompt_guard" = calls[Len(calls)] /\ g1 = "reject" THEN "prompt"
                 ELSE IF "reply_guard" = calls[Len(calls)] /\ g2 = "reject" THEN "reply"
                 ELSE IF "relevance_guard" = calls[Len(calls)] /\ g3 = "reject"
                 THEN "relevance"
                 ELSE None]
        ai_content == IF outcome = "text" THEN <<AgentText>> ELSE <<>>
    IN  IF ~configured THEN ret("none", NoneText, "NONE", <<>>)
        ELSE IF g1 = "reject"
        THEN ret("pair", PromptApology, "GUARDRAILS ERROR", <<"prompt_guard">>)
        ELSE IF outcome \in {"raises", "no_messages"}
        THEN ret("none", NoneText, "NONE", <<"prompt_guard", "agent">>)
        ELSE IF g2 = "reject"
        THEN ret("pair", ReplyApology, "GUARDRAILS ERROR",
                 <<"prompt_guard", "agent", "reply_guard">>)
        ELSE IF g3 = "reject"
        THEN ret("pair", RelevanceApology, "GUARDRAILS ERROR",
                 <<"prompt_guard", "agent", "reply_guard", "relevance_guard">>)
        ELSE ret("pair", ai_content, "outcome",
                 <<"prompt_guard", "agent", "reply_guard", "relevance_guard">>)

\* the whole /chat request of the guardrailed service
chat06g(configured, messages, message, session_in, u, g1, outcome, g2, g3) ==
    LET req == [Blank EXCEPT !.op = "chat", !.messages = messages,
                             !.message = message, !.session_in = session_in,
                             !.path = <<"received">>]
        session_id == session_or_new(session_in, u)
        conversation == conversation_of(messages, message)
        ran == run_agent06g(configured, conversation, g1, outcome, g2, g3)
        turn == [req EXCEPT !.uuid = IF Truthy(session_in) THEN None ELSE u,
                            !.session_id = session_id,
                            !.calls = ran.calls,
                            !.rejected = ran.rejected,
                            !.guarded = ran.user_input,
                            !.agent = IF Contains(ran.calls, "agent")
                                      THEN <<outcome>> ELSE <<>>,
                            !.path = <<"received", "validated", "agent_attempted">>]
    IN  IF conversation = <<>> \/ last_user_message(conversation) = NoneText
        THEN [req EXCEPT !.status = 400, !.path = <<"received", "rejected">>]
        ELSE IF ran.kind = "none"
        \* compute_reply unpacks None into two names: TypeError, a 500
        THEN [turn EXCEPT !.status = 500,
                          !.path = turn.path \o <<"agent_failed", "error">>]
        ELSE IF ~TruthyText(ran.reply)
        THEN [turn EXCEPT !.status = 503,
                          !.path = turn.path \o <<"agent_failed", "guardrail_checked",
                                                  "unavailable">>]
        \* ChatResponse has no source field; note is guardrails_applied
        ELSE [turn EXCEPT !.status = 200, !.reply = ran.reply,
                          !.note = IF ran.guardrail = "GUARDRAILS ERROR"
                                   THEN ran.guardrail ELSE None,
                          !.path = turn.path
                                     \o (IF Contains(ran.calls, "agent")
                                         THEN <<"agent_succeeded">> ELSE <<>>)
                                     \o <<"guardrail_checked", "responded">>]

Chat06g ==
    /\ pending.op = "chat"
    /\ variant = "class06g"
    /\ LET conversation == conversation_of(pending.messages, pending.message)
           valid == conversation # <<>> /\ last_user_message(conversation) # NoneText
           run == valid /\ agent_configured
       IN  \E u \in OutcomesIf(~Truthy(pending.session_in), UUIDs, "u1"),
              g1 \in OutcomesIf(run, GuardOutcomes, "pass") :
           \E outcome \in OutcomesIf(run /\ g1 = "pass", AgentOutcomes, "raises") :
           LET produced == run /\ g1 = "pass" /\ outcome \in {"empty", "text"}
           IN  \E g2 \in OutcomesIf(produced, GuardOutcomes, "pass") :
               \E g3 \in OutcomesIf(produced /\ g2 = "pass", GuardOutcomes, "pass") :
                 /\ last' = chat06g(agent_configured, pending.messages,
                                    pending.message, pending.session_in, u, g1,
                                    outcome, g2, g3)
                 /\ session_history' =
                        IF valid
                        THEN save_token(session_history,
                                        session_or_new(pending.session_in, u),
                                        conversation)
                        ELSE session_history
    /\ pending' = Blank
    /\ just_issued' = None
    /\ UNCHANGED <<config, earlier, threads, ui, active_tokens, issued>>

(* ------------------ class-06 POST /chat (no guardrails) ---------------- *)
\* run_agent of the unguarded service: the agent's text, or None
run_agent06n(configured, outcome) ==
    IF ~configured THEN NoneText
    ELSE IF outcome \in {"raises", "no_messages"} THEN NoneText
    ELSE IF outcome = "empty" THEN <<>>
    ELSE <<AgentText>>

\* the whole /chat request of the unguarded service
chat06n(configured, messages, message, session_in, u, outcome) ==
    LET req == [Blank EXCEPT !.op = "chat", !.messages = messages,
                             !.message = message, !.session_in = session_in,
                             !.path = <<"received">>]
        conversation == conversation_of(messages, message)
        agent_reply == run_agent06n(configured, outcome)
        turn == [req EXCEPT !.uuid = IF Truthy(session_in) THEN None ELSE u,
                            !.session_id = session_or_new(session_in, u),
                            !.calls = IF configured THEN <<"agent">> ELSE <<>>,
                            !.agent = IF configured THEN <<outcome>> ELSE <<>>,
                            !.path = <<"received", "validated", "agent_attempted">>]
    IN  IF conversation = <<>> \/ last_user_message(conversation) = NoneText
        THEN [req EXCEPT !.status = 400, !.path = <<"received", "rejected">>]
        \* compute_reply returns None unless the reply is truthy
        ELSE IF ~TruthyText(agent_reply)
        THEN [turn EXCEPT !.status = 503,
                          !.path = turn.path \o <<"agent_failed", "unavailable">>]
        ELSE [turn EXCEPT !.status = 200, !.reply = agent_reply,
                          !.path = turn.path \o <<"agent_succeeded", "responded">>]

Chat06n ==
    /\ pending.op = "chat"
    /\ variant = "class06n"
    /\ LET conversation == conversation_of(pending.messages, pending.message)
           valid == conversation # <<>> /\ last_user_message(conversation) # NoneText
       IN  \E u \in OutcomesIf(~Truthy(pending.session_in), UUIDs, "u1") :
           \E outcome \in OutcomesIf(valid /\ agent_configured, AgentOutcomes, "raises") :
             /\ last' = chat06n(agent_configured, pending.messages, pending.message,
                                pending.session_in, u, outcome)
             /\ session_history' =
                    IF valid
                    THEN save_token(session_history,
                                    session_or_new(pending.session_in, u), conversation)
                    ELSE session_history
    /\ pending' = Blank
    /\ just_issued' = None
    /\ UNCHANGED <<config, earlier, threads, ui, active_tokens, issued>>

\* the requests a client may send to this service
Requests ==
    (IF variant = "authdemo" THEN {} ELSE {[Blank EXCEPT !.op = "health"]})
    \cup (IF variant = "authdemo"
          THEN {[Blank EXCEPT !.op = "login", !.username = username,
                              !.password = password] :
                   username \in DemoUsernames, password \in DemoPasswords}
               \cup {[Blank EXCEPT !.op = "profile", !.header_name = name,
                                   !.header = header] :
                        name \in DemoHeaderNames, header \in DemoHeaders}
          ELSE {})
    \cup (IF variant \in AuthVariants
          THEN {[Blank EXCEPT !.op = "login", !.username = username,
                              !.password = password] :
                   username \in SubmittedUsernames, password \in SubmittedPasswords}
          ELSE {})
    \cup (IF variant = "class05"
          THEN {[Blank EXCEPT !.op = "chat", !.header = header, !.message = message,
                              !.session_in = session_in] :
                   header \in Headers(API_USERNAME), message \in Messages,
                   session_in \in SessionIds}
          ELSE {})
    \cup (IF variant = "class07"
          THEN {[Blank EXCEPT !.op = "plan", !.header = header,
                              !.message = destination, !.session_in = session_in] :
                   header \in Headers(API_USERNAME), destination \in Destinations,
                   session_in \in SessionIds}
          ELSE {})
    \cup (IF variant \in {"class06g", "class06n"}
          THEN {[Blank EXCEPT !.op = "chat", !.messages = messages,
                              !.message = message, !.session_in = session_in] :
                   messages \in Histories, message \in OptMessages,
                   session_in \in SessionIds}
          ELSE {})

Next ==
    \/ Idle /\ \E request \in Requests : Send(request)
    \/ Health
    \/ \E u \in UUIDs : Login(u)
    \/ DemoLogin
    \/ ReadProfile
    \/ Chat05
    \/ Plan07
    \/ Chat06g
    \/ Chat06n
    \/ Deliver

Spec == Init /\ [][Next]_vars

(* ------------------- the fallback reply, on keyword messages ------------ *)
\* a configured class-05 or class-07 service
InitFallback ==
    /\ variant \in AuthVariants
    /\ env_username = "student"
    /\ env_password = "travel-demo"
    /\ agent_configured \in BOOLEAN
    /\ active_tokens = EmptyStore
    /\ session_history = EmptyStore
    /\ issued = EmptyStore
    /\ just_issued = None
    /\ pending = Blank
    /\ last = Blank
    /\ earlier = NoTurn
    /\ ui = init_state(None)
    /\ threads = [w \in Workers |-> IdleThread]

\* logins with the configured pair, and turns on keyword messages
FallbackRequests ==
    {[Blank EXCEPT !.op = "login", !.username = "student", !.password = "travel-demo"]}
    \cup {[Blank EXCEPT !.op = IF variant = "class05" THEN "chat" ELSE "plan",
                        !.header = header, !.message = message,
                        !.session_in = session_in] :
             header \in {create_token("student", u) : u \in UUIDs},
             message \in KeywordMessages, session_in \in {"s1", "s2"}}

NextFallback ==
    \/ Idle /\ \E request \in FallbackRequests : Send(request)
    \/ \E u \in UUIDs : Login(u)
    \/ Chat05
    \/ Plan07
    \/ Deliver

SpecFallback == InitFallback /\ [][NextFallback]_vars

(* --------------- repeated chat turns of one server process -------------- *)
\* a configured class-05 service, or a class-06 service
InitTurns ==
    /\ variant \in {"class05", "class06g", "class06n"}
    /\ env_username = (IF variant = "class05" THEN "student" ELSE None)
    /\ env_password = (IF variant = "class05" THEN "travel-demo" ELSE None)
    /\ agent_configured \in BOOLEAN
    /\ active_tokens = EmptyStore
    /\ session_history = EmptyStore
    /\ issued = EmptyStore
    /\ just_issued = None
    /\ pending = Blank
    /\ last = Blank
    /\ earlier = NoTurn
    /\ ui = init_state(None)
    /\ threads = [w \in Workers |-> IdleThread]

\* logins with the configured pair, and a few chat requests
TurnRequests ==
    IF variant = "class05"
    THEN {[Blank EXCEPT !.op = "login", !.username = "student",
                        !.password = "travel-demo"]}
         \cup {[Blank EXCEPT !.op = "chat", !.header = header, !.message = message,
                             !.session_in = "s1"] :
                  header \in {create_token("student", u) : u \in UUIDs},
                  message \in {<<>>, <<"hi">>}}
    ELSE {[Blank EXCEPT !.op = "chat", !.messages = messages, !.message = message,
                        !.session_in = session_in] :
             messages \in {<<>>, <<ChatMessage("user", <<"hi">>)>>,
                           <<ChatMessage("user", <<"hi">>),
                             ChatMessage("assistant", <<"FastAPI">>)>>},
             message \in {NoneText, <<"FastAPI">>}, session_in \in {"s1"}}

\* the client takes the response of a chat turn and keeps it for comparison
Keep ==
    /\ last.op = "chat"
    /\ earlier' = [turn |-> last, stored |-> session_history]
    /\ last' = Blank
    /\ UNCHANGED <<config, threads, ui, active_tokens, session_history, issued, just_issued, pending>>

NextTurns ==
    \/ Idle /\ \E request \in TurnRequests : Send(request)
    \/ \E u \in UUIDs : Login(u)
    \/ Chat05
    \/ Chat06g
    \/ Chat06n
    \/ Deliver
    \/ Keep

SpecTurns == InitTurns /\ [][NextTurns]_vars

(* ------------------- the Streamlit front ends and their API ------------- *)
\* STREAMLIT_UI_USERNAME / STREAMLIT_UI_PASSWORD at their defaults
STREAMLIT_USERNAME == "student"
STREAMLIT_PASSWORD == "streamlit-demo"

\* what a user may type into the login form, the chat input and the
\* destination field
FormUsernames == {"student", "guest"}
FormPasswords == {"streamlit-demo", "wrong"}
ChatTexts == {<<"hi">>, <<"FastAPI">>}
FormDestinations == {<<>>, <<"hi">>}

\* a front end and its API; the API password is the UI's or the API's default
InitUI ==
    /\ variant \in AuthVariants
    /\ env_username = "student"
    /\ env_password \in {"streamlit-demo", "travel-demo"}
    /\ agent_configured \in BOOLEAN
    /\ active_tokens = EmptyStore
    /\ session_history = EmptyStore
    /\ issued = EmptyStore
    /\ just_issued = None
    /\ pending = Blank
    /\ last = Blank
    /\ earlier = NoTurn
    /\ \E u \in UUIDs : ui = init_state(u)
    /\ threads = [w \in Workers |-> IdleThread]

\* the class-05 front end's offline_tip
offline_tip(user_text) ==
    LET text == lower(user_text)
    IN  IF Contains(text, "streamlit")
        THEN <<"Tip: Streamlit reruns the script top-to-bottom on every interaction.">>
        ELSE IF Contains(text, "fastapi")
        THEN <<"Tip: FastAPI gives you Swagger docs at /docs with no extra work.">>
        ELSE IF Contains(text, "langfuse") \/ Contains(text, "monitor")
        THEN <<"Tip: Set Langfuse keys to record each request and response.">>
        ELSE <<"Try asking about Streamlit, FastAPI, or Langfuse to see targeted pointers.">>

\* requests.post raised, or raise_for_status did: response.status is 0 when no
\* response came back
raises_for_status(response) == response.status = 0 \/ response.status >= 400

\* the header dict of send_to_api / call_backend: x_auth_token only when the
\* stored token is truthy
request_header(state) == IF Truthy(state.api_token) THEN state.api_token ELSE None

\* authenticate_api, after the HTTP exchange: the token it stores
authenticate_api(state, response) ==
    IF ~raises_for_status(response) /\ Truthy(response.token)
    THEN [state EXCEPT !.api_token = response.token]
    ELSE [state EXCEPT !.api_token = None]

\* require_login, the form submitted: the local check, and the /login
\* request to the API when it passes
UiSubmitLogin(username_input, password_input, u) ==
    /\ Idle
    /\ ~ui.authenticated
    /\ IF username_input = STREAMLIT_USERNAME /\ password_input = STREAMLIT_PASSWORD
       THEN /\ ui' = [ui EXCEPT !.username = username_input, !.session_id = u,
                                !.reply = IF variant = "class05" THEN <<>> ELSE @,
                                !.action = "login", !.shown = "waiting"]
            /\ pending' = [Blank EXCEPT !.op = "login", !.username = username_input,
                                        !.password = password_input]
       ELSE /\ ui' = [ui EXCEPT !.action = "login", !.shown = "invalid_credentials"]
            /\ pending' = pending
    /\ UNCHANGED <<config, earlier, threads, active_tokens, session_history, issued, just_issued, last>>

\* require_login, after authenticate_api returned: logged in with or without
\* an API token
UiLoginDone ==
    /\ last.op = "login"
    /\ LET state == authenticate_api(ui, last)
       IN  ui' = [state EXCEPT !.authenticated = TRUE,
                               !.shown = IF state.api_token # None
                                         THEN "login_successful" ELSE "logged_in_locally"]
    /\ last' = Blank
    /\ UNCHANGED <<config, earlier, threads, active_tokens, session_history, issued, just_issued, pending>>

\* the class-05 chat input: send_to_api posts the text to /chat
UiSend(user_input) ==
    /\ Idle
    /\ variant = "class05"
    /\ ui.authenticated
    /\ ui' = [ui EXCEPT !.action = "send", !.text = user_input, !.shown = "waiting"]
    /\ pending' = [Blank EXCEPT !.op = "chat", !.header = request_header(ui),
                                !.message = user_input, !.session_in = ui.session_id]
    /\ UNCHANGED <<config, earlier, threads, active_tokens, session_history, issued, just_issued, last>>

\* send_to_api, after the HTTP exchange, and the display of its result
send_to_api(state, response) ==
    LET seen == IF response.status = 401 THEN [state EXCEPT !.api_token = None] ELSE state
    IN  IF raises_for_status(response)
        THEN [seen EXCEPT !.reply = offline_tip(state.text), !.source = "offline",
                          !.shown = "reply"]
        ELSE [seen EXCEPT !.reply = response.reply, !.source = response.source,
                          !.shown = "reply"]

UiSendDone ==
    /\ last.op = "chat"
    /\ ui' = send_to_api(ui, last)
    /\ last' = Blank
    /\ UNCHANGED <<config, earlier, threads, active_tokens, session_history, issued, just_issued, pending>>

\* the class-07 planner form: call_backend posts the trip to /plan unless the
\* destination is empty
UiPlan(destination) ==
    /\ Idle
    /\ variant = "class07"
    /\ ui.authenticated
    /\ IF destination = <<>>
       THEN /\ ui' = [ui EXCEPT !.action = "plan", !.text = destination,
                                !.shown = "no_destination"]
            /\ pending' = pending
       ELSE /\ ui' = [ui EXCEPT !.action = "plan", !.text = destination,
                                !.shown = "waiting"]
            /\ pending' = [Blank EXCEPT !.op = "plan", !.header = request_header(ui),
                                        !.message = destination,
                                        !.session_in = ui.session_id]
    /\ UNCHANGED <<config, earlier, threads, active_tokens, session_history, issued, just_issued, last>>

\* call_backend, after the HTTP exchange, and what render_planner_ui does
\* with its result
call_backend(state, response) ==
    IF response.status = 401
    THEN [state EXCEPT !.authenticated = FALSE, !.api_token = None,
                       !.itinerary = NoneText, !.latest_trip = NoneText,
                       !.shown = "session_expired"]
    ELSE IF raises_for_status(response)
    THEN [state EXCEPT !.shown = "backend_request_failed"]
    ELSE [state EXCEPT !.itinerary = response.reply,
                       !.guardrails_note = response.note,
                       !.session_id = response.session_id,
                       !.latest_trip = state.text,
                       !.shown = "itinerary"]

UiPlanDone ==
    /\ last.op = "plan"
    /\ ui' = call_backend(ui, last)
    /\ last' = Blank
    /\ UNCHANGED <<config, earlier, threads, active_tokens, session_history, issued, just_issued, pending>>

\* mutation: logging out leaves the API token in the session state
log_out_keeps_token(v, state, u) ==
    IF v = "class05"
    THEN [state EXCEPT !.authenticated = FALSE, !.username = "", !.reply = <<>>,
                       !.session_id = u,
                       !.action = "logout", !.shown = "logged_out"]
    ELSE [state EXCEPT !.authenticated = FALSE, !.username = "",
                       !.itinerary = NoneText, !.guardrails_note = None,
                       !.latest_trip = NoneText,
                       !.action = "logout", !.shown = "logged_out"]

\* the sidebar's Log out button
log_out(v, state, u) ==
    IF v = "class05"
    THEN [state EXCEPT !.authenticated = FALSE, !.username = "", !.reply = <<>>,
                       !.session_id = u, !.api_token = None,
                       !.action = "logout", !.shown = "logged_out"]
    ELSE [state EXCEPT !.authenticated = FALSE, !.username = "", !.api_token = None,
                       !.itinerary = NoneText, !.guardrails_note = None,
                       !.latest_trip = NoneText,
                       !.action = "logout", !.shown = "logged_out"]

UiLogout ==
    /\ Idle
    /\ ui.authenticated
    /\ \E u \in OutcomesIf(variant = "class05", UUIDs, ui.session_id) :
         ui' = log_out(variant, ui, u)
    /\ UNCHANGED <<config, earlier, threads, active_tokens, session_history, issued, just_issued, pending, last>>

\* the sidebar's Start over / Reset session button
reset_session(v, state, u) ==
    IF v = "class05"
    THEN [state EXCEPT !.reply = <<>>, !.session_id = u,
                       !.action = "reset", !.shown = "session_reset"]
    ELSE [state EXCEPT !.session_id = u, !.itinerary = NoneText,
                       !.latest_trip = NoneText,
                       !.action = "reset", !.shown = "session_reset"]

UiReset ==
    /\ Idle
    /\ ui.authenticated
    /\ \E u \in UUIDs : ui' = reset_session(variant, ui, u)
    /\ UNCHANGED <<config, earlier, threads, active_tokens, session_history, issued, just_issued, pending, last>>

\* the request gets no response: the API is down or the connection fails
NoResponse ==
    /\ pending.op # "none"
    /\ last' = [pending EXCEPT !.status = 0]
    /\ pending' = Blank
    /\ UNCHANGED <<config, earlier, threads, ui, active_tokens, session_history, issued, just_issued>>

\* the API process is started again: app.state.active_tokens = {}
Restart ==
    /\ Idle
    /\ active_tokens # EmptyStore
    /\ active_tokens' = EmptyStore
    /\ UNCHANGED <<config, earlier, threads, ui, session_history, issued, just_issued, pending, last>>

NextUI ==
    \/ \E username_input \in FormUsernames, password_input \in FormPasswords, u \in UUIDs :
         UiSubmitLogin(username_input, password_input, u)
    \/ \E u \in UUIDs : Login(u)
    \/ UiLoginDone
    \/ \E user_input \in ChatTexts : UiSend(user_input)
    \/ Chat05
    \/ UiSendDone
    \/ \E destination \in FormDestinations : UiPlan(destination)
    \/ Plan07
    \/ UiPlanDone
    \/ UiLogout
    \/ UiReset
    \/ NoResponse
    \/ Restart

SpecUI == InitUI /\ [][NextUI]_vars

(* ------------- login and Auth Guard on concurrent worker threads -------- *)
\* a configured class-05 or class-07 service
InitThreads ==
    /\ variant \in AuthVariants
    /\ env_username = "student"
    /\ env_password = "travel-demo"
    /\ agent_configured = FALSE
    /\ active_tokens = EmptyStore
    /\ session_history = EmptyStore
    /\ issued = EmptyStore
    /\ just_issued = None
    /\ pending = Blank
    /\ last = Blank
    /\ earlier = NoTurn
    /\ ui = init_state(None)
    /\ threads = [w \in Workers |-> IdleThread]

\* mutation: the response is returned before the entry is stored
login_next_returns_first(pc) ==
    CASE pc = "check" -> "create"
      [] pc = "create" -> "return"
      [] pc = "return" -> "save"
      [] pc = "save" -> "done"

\* login: the order of its statements after the request has arrived
login_next(pc) ==
    CASE pc = "check" -> "create"
      [] pc = "create" -> "save"
      [] pc = "save" -> "return"
      [] pc = "return" -> "done"

\* the thread pool hands a /login request to a free worker
ThreadLoginArrives(w, username, password) ==
    /\ w \in LoginWorkers
    /\ threads[w].pc = "idle"
    /\ threads' = [threads EXCEPT ![w] = [IdleThread EXCEPT !.pc = "check",
                                                            !.username = username,
                                                            !.password = password]]
    /\ UNCHANGED <<config, earlier, ui, active_tokens, session_history, issued, just_issued, pending, last>>

\* login: the configuration and credential checks
ThreadLoginCheck(w) ==
    /\ threads[w].pc = "check"
    /\ LET st == login_status(variant, API_USERNAME, API_PASSWORD,
                              threads[w].username, threads[w].password)
       IN  threads' = [threads EXCEPT ![w] =
                          IF st = 200 THEN [@ EXCEPT !.pc = login_next("check")]
                          ELSE [@ EXCEPT !.pc = "done", !.status = st]]
    /\ UNCHANGED <<config, earlier, ui, active_tokens, session_history, issued, just_issued, pending, last>>

\* login: token = create_token(username)
ThreadLoginCreate(w, u) ==
    /\ threads[w].pc = "create"
    /\ threads' = [threads EXCEPT ![w] =
                      [@ EXCEPT !.pc = login_next("create"), !.uuid = u,
                                !.token = create_token(threads[w].username, u)]]
    /\ UNCHANGED <<config, earlier, ui, active_tokens, session_history, issued, just_issued, pending, last>>

\* login: save_token(token, username), one dict assignment
ThreadLoginSave(w) ==
    /\ threads[w].pc = "save"
    /\ active_tokens' = save_token(active_tokens, threads[w].token, threads[w].username)
    /\ threads' = [threads EXCEPT ![w] = [@ EXCEPT !.pc = login_next("save")]]
    /\ UNCHANGED <<config, earlier, ui, session_history, issued, just_issued, pending, last>>

\* login: return LoginResponse(token=token); the client has the token
ThreadLoginReturn(w) ==
    /\ threads[w].pc = "return"
    /\ threads' = [threads EXCEPT ![w] = [@ EXCEPT !.pc = login_next("return"),
                                                   !.status = 200]]
    /\ issued' = [t \in DOMAIN issued \cup {threads[w].token} |->
                     IF t = threads[w].token
                     THEN [username |-> threads[w].username, uuid |-> threads[w].uuid]
                     ELSE issued[t]]
    /\ just_issued' = threads[w].token
    /\ UNCHANGED <<config, earlier, ui, active_tokens, session_history, pending, last>>

\* the thread pool hands a /chat or /plan request to a free worker
ThreadGuardArrives(w, header) ==
    /\ w \in GuardWorkers
    /\ threads[w].pc = "idle"
    /\ threads' = [threads EXCEPT ![w] = [IdleThread EXCEPT !.pc = "lookup",
                                                            !.header = header]]
    /\ UNCHANGED <<config, earlier, ui, active_tokens, session_history, issued, just_issued, pending, last>>

\* verify_token: one dict lookup and the test of its result
ThreadGuardLookup(w) ==
    /\ threads[w].pc = "lookup"
    /\ threads' = [threads EXCEPT ![w] =
                      IF verify_token_rejects(active_tokens, threads[w].header)
                      THEN [@ EXCEPT !.pc = "done", !.status = 401]
                      ELSE [@ EXCEPT !.pc = "done", !.status = 200,
                                     !.principal = store_get(active_tokens,
                                                             threads[w].header)]]
    /\ UNCHANGED <<config, earlier, ui, active_tokens, session_history, issued, just_issued, pending, last>>

\* the response has gone out and the worker is free again
ThreadDone(w) ==
    /\ threads[w].pc = "done"
    /\ threads' = [threads EXCEPT ![w] = IdleThread]
    /\ UNCHANGED <<config, earlier, ui, active_tokens, session_history, issued, just_issued, pending, last>>

NextThreads ==
    \E w \in Workers :
        \/ \E password \in {"travel-demo", "wrong"} :
             ThreadLoginArrives(w, "student", password)
        \/ ThreadLoginCheck(w)
        \/ \E u \in UUIDs : ThreadLoginCreate(w, u)
        \/ ThreadLoginSave(w)
        \/ ThreadLoginReturn(w)
        \/ \E header \in Headers(API_USERNAME) \ {None} : ThreadGuardArrives(w, header)
        \/ ThreadGuardLookup(w)
        \/ ThreadDone(w)

SpecThreads == InitThreads /\ [][NextThreads]_vars

(* ------------------- the calendar file of an itinerary ------------------ *)
\* itinerary texts: newlines, spaces and words, one that starts with "day"
\* when lowered and one that only contains it
PlanAtoms == {"\n", " ", "Day", "birthday"}
PlanTexts == UNION {[1..n -> PlanAtoms] : n \in 0..MaxPlanLen}

\* the form's start date and the clock, as day numbers
StartDates == {1, 28}
Clock == {100, 101}

\* plan_text.split("\n\n"): cut at every two consecutive newlines, from the left
RECURSIVE split_blocks(_)
split_blocks(text) ==
    IF text = <<>> THEN << <<>> >>
    ELSE IF Len(text) >= 2 /\ text[1] = "\n" /\ text[2] = "\n"
    THEN << <<>> >> \o split_blocks(SubSeq(text, 3, Len(text)))
    ELSE LET rest == split_blocks(Tail(text))
         IN  << <<Head(text)>> \o rest[1] >> \o Tail(rest)

\* block.strip(): newlines and spaces are whitespace
RECURSIVE strip_block(_)
strip_block(block) ==
    IF block # <<>> /\ Head(block) \in {"\n", " "} THEN strip_block(Tail(block))
    ELSE IF block # <<>> /\ block[Len(block)] \in {"\n", " "}
    THEN strip_block(SubSeq(block, 1, Len(block) - 1))
    ELSE block

\* header = block.strip().lower()
lower_block(block) == [i \in 1..Len(block) |-> IF block[i] = "Day" THEN "day" ELSE block[i]]

\* header.startswith("day")
startswith_day(header) == header # <<>> /\ Head(header) = "day"

\* mutation: the label and the date use the counter as it is
ics_event_without_max(block, day, start_date, now) ==
    [summary |-> <<"Travel Day", day>>,
     description |-> strip_block(block),
     dtstart |-> start_date + (day - 1),
     dtend |-> start_date + (day - 1),
     dtstamp |-> now]

\* the Event built for one block
ics_event(block, day, start_date, now) ==
    LET event_date == start_date + (IF day - 1 > 0 THEN day - 1 ELSE 0)
    IN  [summary |-> <<"Travel Day", IF day > 1 THEN day ELSE 1>>,
         description |-> strip_block(block),
         dtstart |-> event_date,
         dtend |-> event_date,
         dtstamp |-> now]

\* the loop of generate_ics_content over the remaining blocks
RECURSIVE ics_events(_, _, _, _)
ics_events(blocks, day, start_date, now) ==
    IF blocks = <<>> THEN <<>>
    ELSE LET block == Head(blocks)
             header == lower_block(strip_block(block))
             counted == IF startswith_day(header) THEN day + 1 ELSE day
         IN  IF strip_block(block) = <<>>
             THEN ics_events(Tail(blocks), counted, start_date, now)
             ELSE <<ics_event(block, counted, start_date, now)>>
                      \o ics_events(Tail(blocks), counted, start_date, now)

\* generate_ics_content: the events of the calendar, in order
generate_ics_content(plan_text, start_date, now) ==
    ics_events(split_blocks(plan_text), 0, start_date, now)

\* the planner page of a logged-in user with an itinerary in the session state
InitIcs ==
    /\ variant = "class07"
    /\ env_username = "student"
    /\ env_password = "travel-demo"
    /\ agent_configured = TRUE
    /\ active_tokens = EmptyStore
    /\ session_history = EmptyStore
    /\ issued = EmptyStore
    /\ just_issued = None
    /\ pending = Blank
    /\ last = Blank
    /\ earlier = NoTurn
    /\ threads = [w \in Workers |-> IdleThread]
    /\ \E plan_text \in PlanTexts \ {<<>>}, start_date \in StartDates :
         ui = [init_state(None) EXCEPT !.authenticated = TRUE, !.username = "student",
                                      !.itinerary = plan_text,
                                      !.start_date = start_date,
                                      !.shown = "itinerary"]

\* render_planner_ui: the calendar behind the download button
RenderDownload(now) ==
    /\ ui.itinerary # NoneText
    /\ ui.itinerary # <<>>
    /\ ui.shown = "itinerary"
    /\ ui' = [ui EXCEPT !.ics = generate_ics_content(ui.itinerary, ui.start_date, now),
                        !.shown = "download"]
    /\ UNCHANGED <<config, earlier, threads, active_tokens, session_history, issued, just_issued, pending, last>>

NextIcs == \E now \in Clock : RenderDownload(now)

SpecIcs == InitIcs /\ [][NextIcs]_vars

(* ------------------------------ claims --------------------------------- *)
\* a /chat or /plan response of a service that has the Auth Guard
GuardedTurn == variant \in AuthVariants /\ last.op \in {"chat", "plan"}

\* the message is empty or consists only of whitespace
AllWhitespace(message) == \A i \in 1..Len(message) : message[i] \in Whitespace

\* a configured value is missing or empty
Unset(v) == v \in {None, ""}

\* a /login response of a service that compares with API_USERNAME/API_PASSWORD
ConfiguredLogin == variant \in AuthVariants /\ last.op = "login"

\* the one pair the service accepts
ExpectedUsername == IF variant = "authdemo" THEN "bod_doe" ELSE API_USERNAME
ExpectedPassword ==
    IF variant = "authdemo" THEN FAKE_USER_DB["bod_doe"].password ELSE API_PASSWORD

\* C1: a /chat or /plan request whose token header is not a key of the Token
\* Store is answered 401, and nothing of the handler body has run: no
\* principal, no collaborator call, no reply.
C1_UnknownTokenRejected ==
    (GuardedTurn /\ last.header # None /\ last.header \notin DOMAIN active_tokens)
        => /\ last.status = 401
           /\ last.principal = None
           /\ last.calls = <<>>
           /\ last.reply = <<>>
           /\ last.path = <<"received", "rejected">>

\* C1 witness: a well-formed token that was never issued is rejected by a
\* service that has issued another token
C1_Witness ==
    /\ GuardedTurn
    /\ last.header = "token-u0-student"
    /\ active_tokens # EmptyStore
    /\ last.status = 401

\* C2 (as claimed): the request handled right after a successful login, if it
\* presents the token that login returned, passes the Auth Guard with the
\* username that logged in as principal.
C2_IssuedTokenAcceptedNext ==
    [][(pending.op \in {"chat", "plan"} /\ just_issued # None
            /\ pending.header = just_issued /\ last'.op = pending.op)
         => /\ last'.status # 401
            /\ last'.principal = issued[just_issued].username]_vars

\* C3 (as claimed): every login whose pair differs from the configured pair
\* is answered 401.
C3_MismatchIs401 ==
    (ConfiguredLogin
        /\ (last.username # API_USERNAME \/ last.password # API_PASSWORD))
        => last.status = 401

\* C3 (amended): every login whose pair differs from the configured pair
\* fails and issues nothing; the status is 401, except that the class-05
\* service answers 500 while a configured value is missing or empty.
C3_MismatchFails ==
    (ConfiguredLogin
        /\ (last.username # API_USERNAME \/ last.password # API_PASSWORD))
        => /\ last.token = None
           /\ last.status =
                IF variant = "class05" /\ (Unset(API_USERNAME) \/ Unset(API_PASSWORD))
                THEN 500 ELSE 401

\* C3 witness: a pair that differs from the configured one only in the case
\* of the username is answered 401
C3_Witness ==
    /\ ConfiguredLogin
    /\ API_USERNAME = "student"
    /\ last.username = "Student"
    /\ last.password = API_PASSWORD
    /\ last.status = 401

\* C4 (as claimed): every login with exactly the configured pair succeeds and
\* returns a non-empty token that no earlier login returned.
C4_FreshToken ==
    [][(pending.op = "login" /\ last'.op = "login"
            /\ pending.username = ExpectedUsername /\ pending.password = ExpectedPassword)
         => /\ last'.status = 200
            /\ last'.token \notin {None, ""}
            /\ last'.token \notin DOMAIN issued]_vars

\* C4 (amended): a login with exactly the configured pair succeeds with a
\* non-empty token, except that the class-05 service answers 500 while a
\* configured value is empty; the token was returned before exactly when its
\* random component was: uuid4 returned a value it had returned to an earlier
\* login, or, in the authentication demo, whose token has no random
\* component, any earlier login succeeded.
C4_TokenFreshIffUuidFresh ==
    [][(pending.op = "login" /\ last'.op = "login"
            /\ pending.username = ExpectedUsername /\ pending.password = ExpectedPassword)
         => IF variant = "class05" /\ (Unset(API_USERNAME) \/ Unset(API_PASSWORD))
            THEN last'.status = 500 /\ last'.token = None
            ELSE /\ last'.status = 200
                 /\ last'.token \notin {None, ""}
                 /\ variant \in AuthVariants => last'.token \in DOMAIN active_tokens'
                 /\ (last'.token \in DOMAIN issued
                        <=> \E t \in DOMAIN issued : issued[t].uuid = last'.uuid)]_vars

\* C4 witness: a second successful login has returned a second token
C4_Witness ==
    /\ last.op = "login"
    /\ last.status = 200
    /\ Cardinality(DOMAIN issued) = 2
    /\ last.token \in DOMAIN issued

\* C5 (as claimed): a presented token passes the Auth Guard if and only if it
\* is a key of the Token Store, whatever username is stored under it.
C5_AcceptedIffStored ==
    (GuardedTurn /\ last.header # None)
        => (last.status # 401 <=> last.header \in DOMAIN active_tokens)

\* C6 (as claimed): no step removes or changes a Token Store entry, and every
\* request that presents a token issued earlier passes the Auth Guard.
C6_IssuedStaysAccepted ==
    [][/\ \A t \in DOMAIN active_tokens :
            t \in DOMAIN active_tokens' /\ active_tokens'[t] = active_tokens[t]
       /\ (pending.op \in {"chat", "plan"} /\ last'.op = pending.op
              /\ pending.header \in DOMAIN issued)
            => last'.status # 401]_vars

\* C7 (as claimed): while the configured username or password is missing or
\* empty, every login is answered 5xx and no token is issued or stored.
C7_UnsetConfigIs5xx ==
    (ConfiguredLogin /\ (Unset(API_USERNAME) \/ Unset(API_PASSWORD)))
        => /\ last.status >= 500
           /\ last.token = None
           /\ active_tokens = EmptyStore

\* C8: an authenticated /chat request whose message is empty or whitespace
\* only is answered 400, and no collaborator was called for it.
C8_BlankMessageIs400 ==
    (GuardedTurn /\ last.op = "chat" /\ last.status \notin {401, 422}
        /\ AllWhitespace(last.message))
        => /\ last.status = 400
           /\ last.calls = <<>>
           /\ last.agent = <<>>

\* C8 witness: an accepted token with a message of a space and a tab gets 400
C8_Witness ==
    /\ GuardedTurn
    /\ last.op = "chat"
    /\ last.header \in DOMAIN active_tokens
    /\ last.message = <<" ", "\t">>
    /\ last.status = 400

\* the agent was not configured, or its last invocation raised or returned no
\* content
AgentGaveNothing ==
    \/ ~agent_configured
    \/ last.agent # <<>> /\ last.agent[Len(last.agent)] \in {"raises", "no_messages", "empty"}

\* the trace monitor's auth check raised
MonitorRaised == last.calls # <<>> /\ last.calls[Len(last.calls)] = "auth_check"

\* the canned text of the service for this request
CannedReply ==
    IF variant = "class05" THEN build_offline_reply(strip(last.message))
    ELSE build_fallback_reply(last.message)

\* C9 (as claimed): an authenticated, validated chat/plan turn whose agent is
\* unconfigured, raises or returns no content is answered 2xx with the canned
\* fallback text and a fallback source tag.
C9_AgentFailureFallsBack ==
    (GuardedTurn /\ last.status \notin {400, 401, 422} /\ AgentGaveNothing
        /\ ~MonitorRaised)
        => /\ last.status = 200
           /\ last.reply = CannedReply
           /\ last.source \in {"rule-based", "fallback"}

\* C10 (as claimed): every chat turn that passed authentication and
\* validation ends in the state responded.
C10_ValidatedTurnResponds ==
    (last.op \in {"chat", "plan"} /\ last.status \notin {400, 401, 422})
        => last.path[Len(last.path)] = "responded"

\* C11 (as claimed): a /chat or /plan request that carries no token header is
\* answered 401, like a request that carries an unknown token.
C11_NoHeaderIs401 ==
    (GuardedTurn /\ last.header = None) => last.status = 401

\* the collaborator call that a rejecting guardrail check is
GuardCall(check) ==
    CASE check = "prompt" -> "prompt_guard"
      [] check = "reply" -> "reply_guard"
      [] check = "relevance" -> "relevance_guard"
      [] check = "answer" -> "answer_guard"

\* the fixed text the class-06 service substitutes for a rejecting check
Apology(check) ==
    CASE check = "prompt" -> PromptApology
      [] check = "reply" -> ReplyApology
      [] check = "relevance" -> RelevanceApology
      [] OTHER -> <<>>

Rank(call) ==
    CASE call = "prompt_guard" -> 1
      [] call = "agent" -> 2
      [] call \in {"reply_guard", "answer_guard"} -> 3
      [] call = "relevance_guard" -> 4
      [] OTHER -> 0

\* the guardrail checks and agent calls of the turn are in that order, each
\* check made at most once
GuardsAndAgentInOrder ==
    \A i, j \in 1..Len(last.calls) :
        (i < j /\ Rank(last.calls[i]) > 0 /\ Rank(last.calls[j]) > 0)
            => \/ Rank(last.calls[i]) < Rank(last.calls[j])
               \/ last.calls[i] = "agent" /\ last.calls[j] = "agent"

\* a check of the agent's reply was made in the turn
ReplyChecked == \E i \in 1..Len(last.calls) : Rank(last.calls[i]) >= 3

\* what the agent invocation that was made last did
LastAgentOutcome == IF last.agent = <<>> THEN None ELSE last.agent[Len(last.agent)]

\* C13 (as claimed): within a turn the calls are in the order prompt check,
\* agent call, reply checks; a rejected prompt means the agent is not
\* invoked; a reply check is made only after an agent call that produced
\* content.
C13_ChecksAroundAgentWithContent ==
    /\ GuardsAndAgentInOrder
    /\ last.rejected = "prompt" => last.agent = <<>> /\ ~Contains(last.calls, "agent")
    /\ ReplyChecked => LastAgentOutcome = "text"

\* C13 (amended): the same order and the same effect of a rejected prompt; a
\* reply check is made only after an agent call that returned a message: in
\* the class-07 service only when its text is non-empty, in the class-06
\* service also when its content is the empty string.
C13_ChecksAroundAgent ==
    /\ GuardsAndAgentInOrder
    /\ last.rejected = "prompt" => last.agent = <<>> /\ ~Contains(last.calls, "agent")
    /\ ReplyChecked
         => LastAgentOutcome \in (IF variant = "class07" THEN {"text"}
                                  ELSE {"text", "empty"})

\* C13 witness: a class-06 turn with the prompt check, the agent call and both
\* reply checks
C13_Witness ==
    /\ variant = "class06g"
    /\ last.calls = <<"prompt_guard", "agent", "reply_guard", "relevance_guard">>
    /\ last.status = 200

NoFallbackTurn == variant \in {"class06g", "class06n"} /\ last.op = "chat"

\* C15 (as claimed): in the class-06 services a valid request made while the
\* agent is not configured, or whose agent invocation raises or returns no
\* messages, is answered 503.
C15_AgentUnavailableIs503 ==
    (NoFallbackTurn /\ last.status # 400
        /\ (~agent_configured \/ LastAgentOutcome \in {"raises", "no_messages"}))
        => last.status = 503

\* C16 (as claimed): every successful chat/plan response carries a string
\* session_id, the client's when the request has one and a generated one
\* otherwise, and a request that omits session_id is still answered
\* successfully once it has passed authentication and validation.
C16_SessionIdAlwaysCarried ==
    last.op \in {"chat", "plan"}
        => /\ last.status = 200
                => /\ last.session_id # None
                   /\ last.session_in # None => last.session_id = last.session_in
           /\ (GuardedTurn /\ last.session_in = None
                   /\ Contains(last.path, "agent_attempted"))
                => last.status = 200

\* C17 (as claimed): the trace of a successful turn is recorded under the
\* session id that the response carries.
C17_TraceUnderOwnSession ==
    (last.op \in {"chat", "plan"} /\ last.status = 200 /\ last.trace_session # None)
        => last.trace_session = last.session_id

\* C18: in every successful chat/plan response the source is
\* langgraph:<model> exactly when the reply is the text of the agent's last
\* invocation, returned unreplaced, and a fallback tag exactly when the reply
\* is the canned text, also when an agent answer was replaced after the
\* answer guard rejected it.
C18_SourceNamesPath ==
    (GuardedTurn /\ last.status = 200)
        => /\ last.source \in {"langgraph:" \o OPENAI_MODEL, "rule-based", "fallback"}
           /\ last.source = "langgraph:" \o OPENAI_MODEL
                <=> /\ LastAgentOutcome = "text"
                    /\ last.rejected = None
                    /\ last.reply = <<AgentText>>
           /\ last.source \in {"rule-based", "fallback"} <=> last.reply = CannedReply

\* C18 witness: a class-05 turn whose agent raised was answered with the
\* canned text under the tag rule-based
C18_Witness ==
    /\ variant = "class05"
    /\ last.status = 200
    /\ LastAgentOutcome = "raises"
    /\ last.source = "rule-based"
    /\ last.reply = CannedReply

\* the keywords of the fallback reply in the order of their tests, and the
\* tip each selects
KeywordOrder == <<{"streamlit"}, {"fastapi"}, {"langfuse", "monitor"}, {"deploy"}>>

Tips ==
    <<"Streamlit reruns your script after every click. Keep anything you need in st.session_state.",
      "FastAPI ships with automatic docs at /docs. Try them once the server is running!",
      "Langfuse links inputs and outputs. Set the keys to see traces pop up in the dashboard.",
      "Deploy the API first, then point your Streamlit app to the live URL to share it.">>

DefaultTip ==
    "I am in offline mode. Ask about Streamlit, FastAPI, or Langfuse to see directed tips."

\* the tip of the first keyword group, in that order, with a word in the message
KeywordTip(message) ==
    LET hits == {k \in 1..Len(KeywordOrder) :
                    \E w \in KeywordOrder[k] : Contains(lower(message), w)}
    IN  IF hits = {} THEN <<DefaultTip>>
        ELSE <<Tips[CHOOSE k \in hits : \A h \in hits : k <= h]>>

\* the response carries the service's fallback text
FallbackTurn ==
    GuardedTurn /\ last.status = 200 /\ last.source \in {"rule-based", "fallback"}

C20_LoginProfileRoundTrip ==
    (variant = "authdemo" /\ last.op = "profile"
        /\ last.header_name = "X-Auth-Token" /\ last.header \in DOMAIN issued)
        => /\ last.status = 200
           /\ last.principal = issued[last.header].username
           /\ last.full_name = FAKE_USER_DB[issued[last.header].username].full_name

\* two chat turns made the same request: the same token header, message,
\* resent history and session id
SameRequest(a, b) ==
    /\ a.op = "chat" /\ b.op = "chat"
    /\ a.header = b.header
    /\ a.message = b.message
    /\ a.messages = b.messages
    /\ a.session_in = b.session_in

\* the Auth Guard gave the two turns the same verdict (the class-06 services
\* have none: the principal is None)
SameVerdict(a, b) == a.principal = b.principal /\ (a.status = 401 <=> b.status = 401)

\* the collaborators consulted in the two turns and what they did: the calls
\* in order, what uuid4 and the agent returned, whether the monitor accepted,
\* which guardrail check rejected
SameOutcomes(a, b) ==
    /\ a.calls = b.calls
    /\ a.uuid = b.uuid
    /\ a.agent = b.agent
    /\ a.monitored = b.monitored
    /\ a.rejected = b.rejected

\* the turn was rejected before any collaborator was consulted
RejectedTurn(a) == a.path = <<"received", "rejected">>

C22_OfflineTipsWithoutToken ==
    [][/\ (last.op = "login" /\ raises_for_status(last) /\ last'.op = "none")
            => ui'.authenticated /\ ui'.api_token = None
       /\ (last.op \in {"chat", "plan"} /\ last.header = None /\ last'.op = "none")
            => /\ ui'.authenticated
               /\ ui'.shown = "reply"
               /\ ui'.source = "offline"
               /\ ui'.reply = offline_tip(ui.text)]_vars

\* a request to a service with a Token Store is being handled in this step
Handled(ops) == variant \in AuthVariants /\ pending.op \in ops /\ last'.op = pending.op

\* every entry of the Token Store is in it after the step, unchanged
EntriesKept ==
    \A t \in DOMAIN active_tokens :
        t \in DOMAIN active_tokens' /\ active_tokens'[t] = active_tokens[t]

\* C23 (as claimed): a failed /login, and every /chat, /plan and /health
\* request, rejected or not, leaves the Token Store as it was; a successful
\* /login adds exactly one new entry and changes no existing one.
C23_LoginAddsOneNewEntry ==
    [][/\ (Handled({"login"}) /\ last'.status # 200) => active_tokens' = active_tokens
       /\ Handled({"chat", "plan", "health"}) => active_tokens' = active_tokens
       /\ (Handled({"login"}) /\ last'.status = 200)
            => /\ EntriesKept
               /\ last'.token \notin DOMAIN active_tokens
               /\ DOMAIN active_tokens' = DOMAIN active_tokens \cup {last'.token}]_vars

\* C23 (amended): the same, except that a successful /login stores exactly
\* the entry token -> username it returns and changes no other entry; the
\* entry is new unless uuid4 returned a value it had returned to an earlier
\* successful login, in which case the same entry is written again and the
\* Token Store is as it was.
C23_LoginWritesItsEntryOnly ==
    [][/\ (Handled({"login"}) /\ last'.status # 200) => active_tokens' = active_tokens
       /\ Handled({"chat", "plan", "health"}) => active_tokens' = active_tokens
       /\ (Handled({"login"}) /\ last'.status = 200)
            => /\ EntriesKept
               /\ DOMAIN active_tokens' = DOMAIN active_tokens \cup {last'.token}
               /\ active_tokens'[last'.token] = pending.username
               /\ last'.token \in DOMAIN active_tokens
                    <=> \E t \in DOMAIN issued : issued[t].uuid = last'.uuid
               /\ last'.token \in DOMAIN active_tokens
                    => active_tokens' = active_tokens]_vars

\* C23 witness: a successful login has added its entry to a Token Store that
\* held another one, which is still there
C23_Witness ==
    /\ variant \in AuthVariants
    /\ last.op = "login"
    /\ last.status = 200
    /\ last.token \in DOMAIN active_tokens
    /\ \E t \in DOMAIN active_tokens : t # last.token /\ active_tokens[t] = last.username

\* C24: every value in the Token Store is the configured username and every
\* key is token-<id>-<configured username>, so the principal the Auth Guard
\* hands to the chat/plan handler is the configured username.
C24_StoreHoldsConfiguredUsername ==
    /\ \A t \in DOMAIN active_tokens :
         /\ active_tokens[t] = API_USERNAME
         /\ \E id \in UUIDs : t = "token-" \o id \o "-" \o API_USERNAME
    /\ (GuardedTurn /\ last.principal # None) => last.principal = API_USERNAME

\* C24 witness: a turn was handed the configured username as principal by a
\* service that has issued two tokens
C24_Witness ==
    /\ GuardedTurn
    /\ last.principal = "student"
    /\ last.status = 200
    /\ Cardinality(DOMAIN active_tokens) = 2

\* C25: a /chat request with an unknown token and an empty or
\* whitespace-only message is answered 401, not 400, and nothing of the
\* handler has run: authentication is decided before the message is
\* validated.
C25_AuthBeforeValidation ==
    (GuardedTurn /\ last.op = "chat" /\ last.header # None
        /\ last.header \notin DOMAIN active_tokens /\ AllWhitespace(last.message))
        => /\ last.status = 401
           /\ last.calls = <<>>
           /\ last.principal = None

\* C25 witness: a never-issued token with a message of one space is answered
\* 401 by a service that has issued a token
C25_Witness ==
    /\ variant = "class05"
    /\ last.op = "chat"
    /\ last.header = "token-u0-student"
    /\ last.message = <<" ">>
    /\ active_tokens # EmptyStore
    /\ last.status = 401

\* a login on some worker has stored the token
StoredByALogin(token) ==
    \E w \in LoginWorkers :
        threads[w].token = token /\ threads[w].pc \in {"return", "done"}

\* C26: with logins and Auth Guard lookups interleaved on concurrent workers
\* and no lock, no step removes or changes an entry of the Token Store, every
\* token a login has returned is in the store under its username, and a
\* lookup accepts only a token that a login has stored.
C26_NoEntryLostUnderInterleaving ==
    [][/\ EntriesKept
       /\ \A t \in DOMAIN issued' :
            t \in DOMAIN active_tokens' /\ active_tokens'[t] = issued'[t].username
       /\ \A w \in GuardWorkers :
            (threads[w].pc = "lookup" /\ threads'[w].status = 200)
                => /\ threads[w].header \in DOMAIN active_tokens
                   /\ \/ threads[w].header \in DOMAIN issued
                      \/ StoredByALogin(threads[w].header)]_vars

\* C26 witness: two logins have returned different tokens, both stored, while
\* a lookup that ran before the login of its token stored it was rejected and
\* another lookup of the same token is accepted
C26_Witness ==
    /\ Cardinality(DOMAIN issued) = 2
    /\ DOMAIN issued \subseteq DOMAIN active_tokens
    /\ threads["login-1"].pc = "done" /\ threads["login-2"].pc = "done"
    /\ threads["login-1"].token # threads["login-2"].token
    /\ threads["guard-1"].header = threads["login-2"].token
    /\ threads["guard-1"].status = 401
    /\ threads["guard-2"].header = threads["login-2"].token
    /\ threads["guard-2"].status = 200

\* C27 (as claimed): in the guardrailed service the text given to the prompt
\* check and to the relevance check of a turn is the most recent non-blank
\* user message of the conversation, whatever the last entry is.
C27_GuardChecksLastUserMessage ==
    (variant = "class06g" /\ last.op = "chat" /\ Contains(last.calls, "prompt_guard"))
        => last.guarded = last_user_message(conversation_of(last.messages, last.message))

\* the conversation has a user or human entry with non-blank content
HasUserEntry(conv) ==
    \E i \in 1..Len(conv) :
        conv[i].role \in {"user", "human"} /\ strip(conv[i].content) # <<>>

\* the `message` field holds a non-blank text
NonBlank(message) == message # NoneText /\ strip(message) # <<>>

\* the history, with a non-blank `message` that differs from the content of
\* its last entry appended as a user entry
WithMessage(messages, message) ==
    IF NonBlank(message)
          /\ (messages = <<>> \/ messages[Len(messages)].content # strip(message))
    THEN Append(messages, ChatMessage("user", strip(message)))
    ELSE messages

\* a /chat request of a class-06 service is handled in this step
Class06Handled ==
    variant \in {"class06g", "class06n"} /\ pending.op = "chat" /\ last'.op = "chat"

\* C28 (as claimed): a class-06 /chat request is answered 400 exactly when its
\* conversation, the history with the message appended, is empty or has no
\* user entry with non-blank content; a 400 leaves session_history as it was;
\* the conversation of every accepted request, which is stored under its
\* session id, has the supplied non-blank message as a user entry.
C28_AcceptedConversationHasMessage ==
    [][Class06Handled
         => /\ last'.status = 400
                <=> ~HasUserEntry(WithMessage(pending.messages, pending.message))
            /\ last'.status = 400 => session_history' = session_history
            /\ (last'.status # 400 /\ NonBlank(pending.message))
                 => /\ last'.session_id \in DOMAIN session_history'
                    /\ \E i \in 1..Len(session_history'[last'.session_id]) :
                         session_history'[last'.session_id][i]
                            = ChatMessage("user", strip(pending.message))]_vars

\* C29: in both front ends, after every user action the session state holds
\* an API token only if authenticated is true; logging out clears the token;
\* in the travel-planner front end a 401 from /plan leaves authenticated
\* false, the token cleared and the itinerary cleared.
C29_TokenOnlyWhileAuthenticated ==
    [][/\ (pending'.op = "none" /\ last'.op = "none" /\ ui'.api_token # None)
            => ui'.authenticated
       /\ (ui.authenticated /\ ui'.action = "logout" /\ ui' # ui)
            => ~ui'.authenticated /\ ui'.api_token = None
       /\ (variant = "class07" /\ last.op = "plan" /\ last.status = 401
              /\ last'.op = "none")
            => /\ ~ui'.authenticated
               /\ ui'.api_token = None
               /\ ui'.itinerary = NoneText]_vars

\* C29 witness: the travel-planner front end is logged out, without token and
\* itinerary, after a /plan request that carried the token of a login the
\* restarted API no longer knows
C29_Witness ==
    /\ variant = "class07"
    /\ Idle
    /\ ui.action = "plan"
    /\ ui.shown = "session_expired"
    /\ ~ui.authenticated
    /\ ui.api_token = None
    /\ ui.itinerary = NoneText
    /\ issued # EmptyStore
    /\ active_tokens = EmptyStore

\* the blocks of the itinerary whose calendar is shown: the pieces between
\* blank lines (two consecutive newlines)
Blocks == split_blocks(ui.itinerary)

\* block j has a character that is neither a newline nor a space
NonBlankBlock(j) == \E i \in 1..Len(Blocks[j]) : Blocks[j][i] \notin {"\n", " "}

\* the first word of block j starts with "day", in any case
DayBlock(j) ==
    /\ NonBlankBlock(j)
    /\ LET first == CHOOSE i \in 1..Len(Blocks[j]) :
                       /\ Blocks[j][i] \notin {"\n", " "}
                       /\ \A h \in 1..(i - 1) : Blocks[j][h] \in {"\n", " "}
       IN  Blocks[j][first] \in {"Day", "day"}

\* the index of the k-th non-blank block
BlockOfEvent(k) ==
    CHOOSE j \in 1..Len(Blocks) :
        NonBlankBlock(j) /\ Cardinality({h \in 1..j : NonBlankBlock(h)}) = k

\* the number of day blocks up to and including block j
DaysUpTo(j) == Cardinality({h \in 1..j : DayBlock(h)})

Max(a, b) == IF a > b THEN a ELSE b

\* C30: the calendar has one event per non-blank block, in block order; the
\* k-th is labelled Travel Day max(d, 1) and dated start_date + max(d - 1, 0)
\* with d the number of blocks up to it that start with "day"; the dates
\* never decrease and blocks before the first day block are on the start date.
C30_OneEventPerBlock ==
    ui.shown = "download"
        => /\ Len(ui.ics) = Cardinality({j \in 1..Len(Blocks) : NonBlankBlock(j)})
           /\ \A k \in 1..Len(ui.ics) :
                LET j == BlockOfEvent(k)
                    d == DaysUpTo(j)
                IN  /\ ui.ics[k].description = strip_block(Blocks[j])
                    /\ ui.ics[k].summary = <<"Travel Day", Max(d, 1)>>
                    /\ ui.ics[k].dtstart = ui.start_date + Max(d - 1, 0)
                    /\ ui.ics[k].dtend = ui.ics[k].dtstart
                    /\ d = 0 => ui.ics[k].dtstart = ui.start_date
           /\ \A k \in 1..(Len(ui.ics) - 1) : ui.ics[k].dtstart <= ui.ics[k + 1].dtstart

\* C30 witness: two day blocks with an empty block between them give two
\* events, Travel Day 1 on the start date and Travel Day 2 on the day after
C30_Witness ==
    /\ ui.shown = "download"
    /\ ui.itinerary = <<"Day", "\n", "\n", "\n", "\n", "Day">>
    /\ Len(Blocks) = 3
    /\ Len(ui.ics) = 2
    /\ ui.ics[1].summary = <<"Travel Day", 1>>
    /\ ui.ics[1].dtstart = ui.start_date
    /\ ui.ics[2].summary = <<"Travel Day", 2>>
    /\ ui.ics[2].dtstart = ui.start_date + 1

====
